---------------------------- MODULE Spec2Model ----------------------------
(***************************************************************************)
(* A model of project_renewal/consolidate.py: the license filter, the two  *)
(* lookup builders, the enrichment join, the sort by Expiration, the       *)
(* column reordering and the row highlighting of consolidate().            *)
(*                                                                         *)
(* Cell values are Python strings, modelled as sequences of one-character  *)
(* strings so that str.strip() and str.lower() are computed, not assumed.  *)
(* Column names are never transformed by the modelled code and are plain   *)
(* strings.  A DataFrame is a record of its column sequence, its index     *)
(* labels and its rows (functions from column name to cell); a Python dict *)
(* is a record of its key order and its mapping.                           *)
(***************************************************************************)
EXTENDS Integers, Sequences, FiniteSets, TLC

VARIABLES
    pc,                 \* position in consolidate()
    lic_df,             \* the licenses table as read
    con_df,             \* the contracts table as read
    fin_df,             \* the finance table as read
    lic_filtered,       \* filter_license_rows(lic_df)
    items,              \* list of dicts, one per filtered license row
    contract_lookup,    \* lookup of build_contract_lookup, as built so far
    finance_lookup,     \* lookup of build_finance_lookup, as built so far
    con_i,              \* number of contract rows consumed by the builder loop
    fin_i,              \* number of finance rows consumed by the builder loop
    item_i,             \* number of items fully enriched by the join loop
    missing_contract,   \* counter of the join
    missing_finance,    \* counter of the join
    out_df,             \* the output frame
    cols,               \* list(out_df.columns) taken before the reordering
    today,              \* pd.Timestamp.today().normalize(), as a day number
    ws                  \* fill of each worksheet cell, <<sheet row, column>> -> fill

vars == <<pc, lic_df, con_df, fin_df, lic_filtered, items, contract_lookup,
          finance_lookup, con_i, fin_i, item_i, missing_contract,
          missing_finance, out_df, cols, today, ws>>

-----------------------------------------------------------------------------
(* Bounds of the model: the longest table of each input family.            *)

MaxLicRows == 2

MaxConRows == 3

MaxFinRows == 3

MaxJoinRows == 2

MaxSortRows == 3

-----------------------------------------------------------------------------
(* Python strings.                                                         *)

Range(s) == {s[k] : k \in DOMAIN s}

Whitespace == {" ", "\t"}

UpperAlphabet ==
    <<"A", "B", "C", "D", "E", "F", "G", "H", "I", "J", "K", "L", "M",
      "N", "O", "P", "Q", "R", "S", "T", "U", "V", "W", "X", "Y", "Z">>

LowerAlphabet ==
    <<"a", "b", "c", "d", "e", "f", "g", "h", "i", "j", "k", "l", "m",
      "n", "o", "p", "q", "r", "s", "t", "u", "v", "w", "x", "y", "z">>

LowerChar(c) ==
    IF \E k \in DOMAIN UpperAlphabet : UpperAlphabet[k] = c
    THEN LowerAlphabet[CHOOSE k \in DOMAIN UpperAlphabet : UpperAlphabet[k] = c]
    ELSE c

\* str.lower()
Lower(s) == [k \in DOMAIN s |-> LowerChar(s[k])]

RECURSIVE LStrip(_)
LStrip(s) ==
    IF s # <<>> /\ Head(s) \in Whitespace THEN LStrip(Tail(s)) ELSE s

RECURSIVE RStrip(_)
RStrip(s) ==
    IF s # <<>> /\ s[Len(s)] \in Whitespace
    THEN RStrip(SubSeq(s, 1, Len(s) - 1))
    ELSE s

\* str.strip()
Strip(s) == RStrip(LStrip(s))

\* Series.str.strip().str.lower()
Norm(s) == Lower(Strip(s))

EmptyStr == <<>>

-----------------------------------------------------------------------------
(* Module constants of consolidate.py.                                     *)

PRODUCT_ALLOWED == <<"i", "n", "s", "p", "e", "c", "t">>

TIERS_ALLOWED ==
    { <<"e", "n", "t", "e", "r", "p", "r", "i", "s", "e">>,
      <<"e", "n", "t", "e", "r", "p", "r", "i", "s", "e", " ", "a", "i">>,
      <<"i", "n", "s", "p", "e", "c", "t", " ", "p", "r", "o">>,
      <<"s", "t", "a", "r", "t", "e", "r", "+">> }

BU_EXCLUDE == <<"p", "r", "o", "c", "e", "q", " ", "h", "q">>

BU_MISSING_MARKERS ==
    { <<>>,
      <<"#", "n", "/", "a">>,
      <<"n", "/", "a">>,
      <<"n", "a">>,
      <<"n", "o", "n", "e">>,
      <<"n", "u", "l", "l">> }

\* the literal "#NA" of build_finance_lookup and of the join
SENTINEL == <<"#", "N", "A">>

ORANGE_FILL == "FFFFA500"

YELLOW_FILL == "FFFFFF00"

NO_FILL == "none"

\* fields of build_contract_lookup, contract_fields of consolidate (same list)
contract_fields ==
    <<"Country Sold To", "User Type", "Remarks", "BP",
      "First Expiration Date", "License Count", "Language">>

LicenseRequired == {"Contract ID", "Product", "Tier", "BU"}

ContractRequired == {"ID"} \cup Range(contract_fields)

FinanceRequired == {"Contract ID", "Customer name"}

-----------------------------------------------------------------------------
(* DataFrames and dicts.                                                   *)

Frame(columns, index, rows) ==
    [columns |-> columns, index |-> index, rows |-> rows]

EmptyFrame == Frame(<<>>, <<>>, <<>>)

\* a frame as read from a CSV: RangeIndex 0..n-1
ReadFrame(columns, rows) ==
    Frame(columns, [k \in DOMAIN rows |-> k - 1], rows)

NRows(df) == Len(df.rows)

\* the positions of a sequence that satisfy a mask, in increasing order
RECURSIVE Positions(_, _)
Positions(mask, k) ==
    IF k > Len(mask) THEN <<>>
    ELSE (IF mask[k] THEN <<k>> ELSE <<>>) \o Positions(mask, k + 1)

\* df.loc[mask] / df.iloc[positions]: rows and index labels taken together
Take(df, positions) ==
    Frame(df.columns,
          [k \in DOMAIN positions |-> df.index[positions[k]]],
          [k \in DOMAIN positions |-> df.rows[positions[k]]])

Dict(keys, val) == [keys |-> keys, val |-> val]

HasKey(d, k) == k \in DOMAIN d.val

\* d.get(k, default)
DictGet(d, k, default) == IF HasKey(d, k) THEN d.val[k] ELSE default

\* d[k] = v : a new key goes last, an existing key keeps its place
DictSet(d, k, v) ==
    Dict(IF HasKey(d, k) THEN d.keys ELSE Append(d.keys, k),
         [x \in DOMAIN d.val \cup {k} |-> IF x = k THEN v ELSE d.val[x]])

\* d.setdefault(k, v)
DictSetDefault(d, k, v) == IF HasKey(d, k) THEN d ELSE DictSet(d, k, v)


\* a mutant of DictUpdate's use: keys already present are left alone
RECURSIVE UpdateKeepsExisting(_, _, _)
UpdateKeepsExisting(d, keys, val) ==
    IF keys = <<>> THEN d
    ELSE UpdateKeepsExisting(DictSetDefault(d, Head(keys), val[Head(keys)]),
                             Tail(keys), val)

\* d.update(other), other given by its key order and its mapping
RECURSIVE DictUpdate(_, _, _)
DictUpdate(d, keys, val) ==
    IF keys = <<>> THEN d
    ELSE DictUpdate(DictSet(d, Head(keys), val[Head(keys)]), Tail(keys), val)

\* for f in fields: d.setdefault(f, v)
RECURSIVE SetDefaults(_, _, _)
SetDefaults(d, keys, v) ==
    IF keys = <<>> THEN d
    ELSE SetDefaults(DictSetDefault(d, Head(keys), v), Tail(keys), v)

\* df.to_dict(orient="records")
ToRecords(df) == [k \in DOMAIN df.rows |-> Dict(df.columns, df.rows[k])]

\* the value pandas puts where a dict lacks a column
NaN == <<"NaN">>

RECURSIVE KeysInOrder(_, _)
KeysInOrder(ds, seen) ==
    IF ds = <<>> THEN seen
    ELSE LET fresh == SelectSeq(Head(ds).keys, LAMBDA c : c \notin Range(seen))
         IN  KeysInOrder(Tail(ds), seen \o fresh)

\* pd.DataFrame(list of dicts): columns in order of first appearance,
\* a fresh RangeIndex
DataFrameOf(ds) ==
    LET columns == KeysInOrder(ds, <<>>)
    IN  ReadFrame(columns,
                  [k \in DOMAIN ds |->
                      [c \in Range(columns) |-> DictGet(ds[k], c, NaN)]])

-----------------------------------------------------------------------------
(* filter_license_rows                                                     *)

\* a mutant of RowPasses: the missing-value markers are not excluded
RowPassesIgnoringMarkers(row) ==
    /\ Norm(row["Product"]) = PRODUCT_ALLOWED
    /\ Norm(row["Tier"]) \in TIERS_ALLOWED
    /\ ~(Norm(row["BU"]) = BU_EXCLUDE)

\* the mask of filter_license_rows, for one row
RowPasses(row) ==
    /\ Norm(row["Product"]) = PRODUCT_ALLOWED
    /\ Norm(row["Tier"]) \in TIERS_ALLOWED
    /\ ~(Norm(row["BU"]) = BU_EXCLUDE)
    /\ ~(Norm(row["BU"]) \in BU_MISSING_MARKERS)

FilterMask(df) == [k \in DOMAIN df.rows |-> RowPasses(df.rows[k])]

\* license_df.loc[mask].copy()
filter_license_rows(df) == Take(df, Positions(FilterMask(df), 1))

MissingColumns(required, df) == required \ Range(df.columns)

-----------------------------------------------------------------------------
(* build_contract_lookup and build_finance_lookup: one loop iteration      *)

\* row.get(f, "")
RowGet(row, f) == IF f \in DOMAIN row THEN row[f] ELSE EmptyStr

Put(lookup, k, v) ==
    [x \in DOMAIN lookup \cup {k} |-> IF x = k THEN v ELSE lookup[x]]

ContractEntry(row) == [f \in Range(contract_fields) |-> Strip(RowGet(row, f))]

\* a mutant of ContractRowStep: a later row with the same ID replaces the entry
ContractRowStepLastWins(lookup, row) ==
    LET cid == Strip(row["ID"])
    IN  IF cid = EmptyStr THEN lookup ELSE Put(lookup, cid, ContractEntry(row))

ContractRowStep(lookup, row) ==
    LET cid == Strip(row["ID"])
    IN  IF cid = EmptyStr \/ cid \in DOMAIN lookup
        THEN lookup
        ELSE Put(lookup, cid, ContractEntry(row))

FinanceRowStep(lookup, row) ==
    LET cid   == Strip(row["Contract ID"])
        cname == Strip(RowGet(row, "Customer name"))
    IN  IF cid = EmptyStr THEN lookup
        ELSE IF cid \in DOMAIN lookup /\ lookup[cid] # SENTINEL THEN lookup
        ELSE Put(lookup, cid,
                 IF cname # EmptyStr THEN cname
                 ELSE IF cid \in DOMAIN lookup THEN lookup[cid] ELSE SENTINEL)

-----------------------------------------------------------------------------
(* the enrichment loop of consolidate: one item                            *)

ItemContractId(item) == Strip(DictGet(item, "Contract ID", EmptyStr))

\* a mutant of MergeContract: a hit fills only the fields the item lacks
MergeContractKeepsLicense(item, lookup) ==
    LET contract_id == ItemContractId(item)
    IN  IF contract_id \notin DOMAIN lookup
        THEN SetDefaults(item, contract_fields, EmptyStr)
        ELSE UpdateKeepsExisting(item, contract_fields, lookup[contract_id])

\* lines 303-309: setdefault on a miss, update on a hit
MergeContract(item, lookup) ==
    LET contract_id == ItemContractId(item)
    IN  IF contract_id \notin DOMAIN lookup
        THEN SetDefaults(item, contract_fields, EmptyStr)
        ELSE DictUpdate(item, contract_fields, lookup[contract_id])

\* a mutant of CustomerName: a stored name is returned, an absent one is empty
CustomerNameBlankOnMiss(item, lookup) ==
    LET contract_id == ItemContractId(item)
    IN  IF contract_id \in DOMAIN lookup THEN lookup[contract_id] ELSE EmptyStr

\* finance_lookup.get(contract_id, "#NA")
CustomerName(item, lookup) ==
    LET contract_id == ItemContractId(item)
    IN  IF contract_id \in DOMAIN lookup THEN lookup[contract_id] ELSE SENTINEL

-----------------------------------------------------------------------------
(* Dates.  A date is written as a day count, optionally followed by "T"    *)
(* and an hour: "61", "61T9".  pd.to_datetime(errors="coerce") is the      *)
(* parse of that notation: a Timestamp <<day, hour>>, or NaT for any other *)
(* text.                                                                   *)

Digits == <<"0", "1", "2", "3", "4", "5", "6", "7", "8", "9">>

IsDigits(s) == s # <<>> /\ \A k \in DOMAIN s : s[k] \in Range(Digits)

DigitValue(c) == (CHOOSE k \in DOMAIN Digits : Digits[k] = c) - 1

RECURSIVE ParseNat(_)
ParseNat(s) ==
    IF s = <<>> THEN 0
    ELSE ParseNat(SubSeq(s, 1, Len(s) - 1)) * 10 + DigitValue(s[Len(s)])

NaT == <<>>

to_datetime(s) ==
    IF "T" \in Range(s)
    THEN LET k == CHOOSE j \in DOMAIN s :
                      s[j] = "T" /\ \A m \in 1..(j - 1) : s[m] # "T"
             d == SubSeq(s, 1, k - 1)
             h == SubSeq(s, k + 1, Len(s))
         IN  IF IsDigits(d) /\ IsDigits(h)
             THEN <<ParseNat(d), ParseNat(h)>>
             ELSE NaT
    ELSE IF IsDigits(s) THEN <<ParseNat(s), 0>> ELSE NaT

\* Timestamp order
TsLeq(a, b) == a[1] < b[1] \/ (a[1] = b[1] /\ a[2] <= b[2])

\* (exp_ts.normalize() - today).days, today being normalized
DaysToExpiry(ts, day) == ts[1] - day

-----------------------------------------------------------------------------
(* sort_values("_exp_sort", na_position="last")                            *)

ExpirationKeys(df) ==
    [k \in DOMAIN df.rows |-> to_datetime(df.rows[k]["Expiration"])]

NonNaTPositions(keys) == Positions([k \in DOMAIN keys |-> keys[k] # NaT], 1)

NaTPositions(keys) == Positions([k \in DOMAIN keys |-> keys[k] = NaT], 1)

\* the orders argsort may give the non-NaT keys: the default kind is not
\* stable, so equal keys come in any order
ArgsortOutcomes(keys, positions) ==
    LET n == Len(positions)
    IN  { p \in [1..n -> Range(positions)] :
            /\ \A a, b \in 1..n : a # b => p[a] # p[b]
            /\ \A a \in 1..(n - 1) : TsLeq(keys[p[a]], keys[p[a + 1]]) }

\* a mutant of SortOutcomes: rows with a NaT key are dropped
SortOutcomesDropNaT(keys) ==
    ArgsortOutcomes(keys, NonNaTPositions(keys))

\* a mutant of SortOutcomes: the NaT tail is reversed
SortOutcomesTailReversed(keys) ==
    LET tail == NaTPositions(keys)
    IN  { p \o [k \in DOMAIN tail |-> tail[Len(tail) + 1 - k]] :
            p \in ArgsortOutcomes(keys, NonNaTPositions(keys)) }

\* nargsort: the sorted non-NaT positions, then the NaT positions in order
SortOutcomes(keys) ==
    { p \o NaTPositions(keys) : p \in ArgsortOutcomes(keys, NonNaTPositions(keys)) }

-----------------------------------------------------------------------------
(* column reordering                                                       *)

\* out_df["Customer name"] = "#NA" when the column is absent
WithCustomerName(df) ==
    IF "Customer name" \in Range(df.columns) THEN df
    ELSE Frame(Append(df.columns, "Customer name"), df.index,
               [k \in DOMAIN df.rows |->
                   [c \in DOMAIN df.rows[k] \cup {"Customer name"} |->
                       IF c = "Customer name" THEN SENTINEL ELSE df.rows[k][c]]])

FirstCol(cs) ==
    IF "Contract ID" \in Range(cs) THEN "Contract ID"
    ELSE IF \E k \in DOMAIN cs : cs[k] # "Customer name"
    THEN cs[CHOOSE k \in DOMAIN cs :
                /\ cs[k] # "Customer name"
                /\ \A m \in 1..(k - 1) : cs[m] = "Customer name"]
    ELSE cs[1]

NewCols(cs) ==
    <<FirstCol(cs), "Customer name">>
        \o SelectSeq(cs, LAMBDA c : c \notin {FirstCol(cs), "Customer name"})

\* out_df[new_cols]
SelectColumns(df, new_cols) ==
    Frame(new_cols, df.index,
          [k \in DOMAIN df.rows |-> [c \in Range(new_cols) |-> df.rows[k][c]]])

-----------------------------------------------------------------------------
(* highlight_expiring_rows                                                 *)

\* a mutant of Band: the orange band ends a day late
BandLateBoundary(d) ==
    IF 0 <= d /\ d <= 31 THEN ORANGE_FILL
    ELSE IF 32 <= d /\ d <= 60 THEN YELLOW_FILL
    ELSE NO_FILL

\* the fill chosen for days_to_expiry, NO_FILL where the loop continues
Band(d) ==
    IF 0 <= d /\ d <= 30 THEN ORANGE_FILL
    ELSE IF 31 <= d /\ d <= 60 THEN YELLOW_FILL
    ELSE NO_FILL

\* the sheet to_excel writes: a header row and one row per record, unfilled
SheetCells(df) == (1..(NRows(df) + 1)) \X (1..Len(df.columns))

BlankSheet(df) == [cell \in SheetCells(df) |-> NO_FILL]

\* the fill the loop gives sheet row r (excel_row_idx = position + 1)
RowFill(df, day, r) ==
    IF r < 2 THEN NO_FILL
    ELSE LET exp_ts == to_datetime(df.rows[r - 1]["Expiration"])
         IN  IF exp_ts = NaT THEN NO_FILL ELSE Band(DaysToExpiry(exp_ts, day))

Highlighted(df, day) ==
    [cell \in SheetCells(df) |-> RowFill(df, day, cell[1])]

-----------------------------------------------------------------------------
(* Sample cell texts of the input families.                                *)

str_Inspect_padded == <<" ", "I", "n", "s", "p", "e", "c", "t", " ">>

str_GPR_Live == <<"G", "P", "R", " ", "L", "i", "v", "e">>

str_Enterprise == <<"E", "n", "t", "e", "r", "p", "r", "i", "s", "e">>

str_ENTERPRISE_AI == <<"E", "N", "T", "E", "R", "P", "R", "I", "S", "E", " ", "A", "I">>

str_Inspect_Pro_tab == <<"I", "n", "s", "p", "e", "c", "t", " ", "P", "r", "o", "\t">>

str_Starter_padded == <<" ", "S", "t", "a", "r", "t", "e", "r", "+">>

str_Inspect_Free_Trial == <<"I", "n", "s", "p", "e", "c", "t", " ", "F", "r", "e", "e", " ", "T", "r", "i", "a", "l">>

str_APAC == <<"A", "P", "A", "C">>

str_Proceq_HQ == <<"P", "r", "o", "c", "e", "q", " ", "H", "Q">>

str_proceq_hq_padded == <<" ", "p", "r", "o", "c", "e", "q", " ", "h", "q", " ">>

str_blank == <<" ">>

str_hash_N_A == <<"#", "N", "/", "A">>

str_N_A == <<"N", "/", "A">>

str_NA == <<"N", "A">>

str_None == <<"N", "o", "n", "e">>

str_NULL == <<"N", "U", "L", "L">>

str_c1 == <<"c", "1">>

str_c1_padded == <<" ", "c", "1", " ">>

str_c2 == <<"c", "2">>

str_c2_padded == <<" ", "c", "2", " ">>

str_c3 == <<"c", "3">>

str_Acme == <<"A", "c", "m", "e">>

str_Bolt_padded == <<" ", "B", "o", "l", "t", " ">>

str_Old == <<"O", "l", "d">>

str_Singapore == <<"S", "i", "n", "g", "a", "p", "o", "r", "e">>

str_Japan_padded == <<" ", "J", "a", "p", "a", "n", " ">>

str_End_User == <<"E", "n", "d", " ", "U", "s", "e", "r">>

str_vip == <<"v", "i", "p">>

str_lic_note == <<"l", "i", "c", " ", "n", "o", "t", "e">>

str_en == <<"e", "n">>

str_de == <<"d", "e">>

str_BP7 == <<"B", "P", "7">>

str_12 == <<"1", "2">>

str_60 == <<"6", "0">>

str_61 == <<"6", "1">>

str_61T9 == <<"6", "1", "T", "9">>

str_91 == <<"9", "1">>

str_TBD == <<"T", "B", "D">>

-----------------------------------------------------------------------------
(* Input tables.                                                           *)

SeqsUpTo(S, n) == UNION { [1..m -> S] : m \in 0..n }

LicColumns == <<"Contract ID", "Product", "Tier", "BU", "Expiration">>

LicColumnsRemarks ==
    <<"Contract ID", "Remarks", "Product", "Tier", "BU", "Expiration">>

LicColumnsNoExpiration ==
    <<"Customer name", "Contract ID", "Product", "Tier", "BU">>

ConColumns == <<"ID">> \o contract_fields

FinColumns == <<"Contract ID", "Customer name">>

LicRow(id, product, tier, bu, exp) ==
    ("Contract ID" :> id) @@ ("Product" :> product) @@ ("Tier" :> tier)
        @@ ("BU" :> bu) @@ ("Expiration" :> exp)

LicRowRemarks(id, bu, exp) ==
    LicRow(id, str_Inspect_padded, str_Enterprise, bu, exp)
        @@ ("Remarks" :> str_lic_note)

LicRowNoExpiration(id, bu) ==
    ("Customer name" :> str_Old) @@ ("Contract ID" :> id)
        @@ ("Product" :> PRODUCT_ALLOWED) @@ ("Tier" :> str_Starter_padded)
        @@ ("BU" :> bu)

ConRow(id, country, user, remarks, bp, first, count, language) ==
    ("ID" :> id) @@ ("Country Sold To" :> country) @@ ("User Type" :> user)
        @@ ("Remarks" :> remarks) @@ ("BP" :> bp)
        @@ ("First Expiration Date" :> first) @@ ("License Count" :> count)
        @@ ("Language" :> language)

ConRowA(id) ==
    ConRow(id, str_Singapore, str_End_User, str_vip, str_BP7, str_61, str_12, str_en)

ConRowB(id) ==
    ConRow(id, str_Japan_padded, EmptyStr, str_blank, EmptyStr, str_91, EmptyStr, str_de)

ConRowC(id) ==
    ConRow(id, EmptyStr, str_End_User, EmptyStr, EmptyStr, EmptyStr, str_12, EmptyStr)

FinRow(id, name) == ("Contract ID" :> id) @@ ("Customer name" :> name)

DefaultLic ==
    ReadFrame(LicColumns,
        << LicRow(str_c1, str_Inspect_padded, str_Enterprise, str_APAC, str_61),
           LicRow(str_c3, PRODUCT_ALLOWED, str_ENTERPRISE_AI, str_APAC, str_TBD) >>)

DefaultCon == ReadFrame(ConColumns, << ConRowA(str_c1) >>)

DefaultFin == ReadFrame(FinColumns, << FinRow(str_c1, str_Acme) >>)

DefaultTodays == {31}

Inputs(lic, con, fin, day) == [lic |-> lic, con |-> con, fin |-> fin, today |-> day]

\* inputs every family contains: a table without a required column, for each
\* of the three readers, and a licenses table without an Expiration column
CommonInputs ==
    { Inputs(lic, con, fin, day) :
        <<lic, con, fin>> \in
            { <<ReadFrame(<<"Contract ID", "Product", "Tier">>, <<>>),
                DefaultCon, DefaultFin>>,
              <<DefaultLic, ReadFrame(<<"ID", "Remarks">>, <<>>), DefaultFin>>,
              <<DefaultLic, DefaultCon, ReadFrame(<<"Contract ID">>, <<>>)>>,
              <<ReadFrame(LicColumnsNoExpiration,
                          << LicRowNoExpiration(str_c1, str_APAC) >>),
                DefaultCon, DefaultFin>> },
        day \in DefaultTodays }

(* The licenses family of the filter: every combination of Product, Tier   *)
(* and BU texts in one row, the other rows of the table among three.       *)

ProductTexts == {str_Inspect_padded, PRODUCT_ALLOWED, str_GPR_Live}

TierTexts ==
    {str_Enterprise, str_ENTERPRISE_AI, str_Inspect_Pro_tab, str_Starter_padded,
     str_Inspect_Free_Trial, EmptyStr}

BUTexts ==
    {str_APAC, str_Proceq_HQ, str_proceq_hq_padded, EmptyStr, str_blank,
     str_hash_N_A, str_N_A, str_NA, str_None, str_NULL}

FilterRows ==
    { LicRow(str_c1, p, t, b, str_61) :
        p \in ProductTexts, t \in TierTexts, b \in BUTexts }

FilterCoreRows ==
    { LicRow(str_c1, str_Inspect_padded, str_Enterprise, str_APAC, str_61),
      LicRow(str_c1, PRODUCT_ALLOWED, str_Starter_padded, str_Proceq_HQ, str_61),
      LicRow(str_c1, str_GPR_Live, str_Enterprise, str_APAC, str_61) }

FilterTablesOfLen(n) ==
    UNION { { [k \in 1..n |-> IF k = j THEN r ELSE rest[k]] :
                r \in FilterRows, rest \in [1..n -> FilterCoreRows] } :
            j \in 1..n }

FilterTables == {<<>>} \cup UNION { FilterTablesOfLen(n) : n \in 1..MaxLicRows }

FilterInputs ==
    { Inputs(ReadFrame(LicColumns, t), DefaultCon, DefaultFin, day) :
        t \in FilterTables, day \in DefaultTodays }

(* The contracts family of build_contract_lookup.                          *)

ContractIdTexts == {str_c1, str_c1_padded, str_c2, str_blank}

ContractRows ==
    UNION { {ConRowA(id), ConRowB(id), ConRowC(id)} : id \in ContractIdTexts }

ContractInputs ==
    { Inputs(DefaultLic, ReadFrame(ConColumns, t), DefaultFin, day) :
        t \in SeqsUpTo(ContractRows, MaxConRows), day \in DefaultTodays }

(* The finance family of build_finance_lookup.                             *)

FinanceIdTexts == {str_c1, str_c1_padded, str_c2, EmptyStr}

FinanceNameTexts == {EmptyStr, str_Acme, SENTINEL, str_Bolt_padded}

FinanceRows == { FinRow(id, name) : id \in FinanceIdTexts, name \in FinanceNameTexts }

FinanceInputs ==
    { Inputs(DefaultLic, DefaultCon, ReadFrame(FinColumns, t), day) :
        t \in SeqsUpTo(FinanceRows, MaxFinRows), day \in DefaultTodays }

(* The family of the join: licenses of three layouts, with Contract IDs    *)
(* that hit, hit a sentinel, or miss; contracts and finance tables with    *)
(* duplicated IDs, or empty.                                               *)

JoinIdTexts == {str_c1, str_c2_padded, str_c3}

JoinBUTexts == {str_APAC, str_Proceq_HQ}

JoinExpTexts == {str_61, str_TBD}

JoinLicenses ==
    { ReadFrame(LicColumns, t) :
        t \in SeqsUpTo({ LicRow(id, str_Inspect_padded, str_Enterprise, bu, exp) :
                           id \in JoinIdTexts, bu \in JoinBUTexts, exp \in JoinExpTexts },
                       MaxJoinRows) }
    \cup
    { ReadFrame(LicColumnsRemarks, t) :
        t \in SeqsUpTo({ LicRowRemarks(id, bu, exp) :
                           id \in JoinIdTexts, bu \in JoinBUTexts, exp \in JoinExpTexts },
                       MaxJoinRows) }
    \cup
    { ReadFrame(LicColumnsNoExpiration, t) :
        t \in SeqsUpTo({ LicRowNoExpiration(id, bu) :
                           id \in JoinIdTexts, bu \in JoinBUTexts },
                       MaxJoinRows) }

JoinContracts ==
    { ReadFrame(ConColumns, <<>>),
      ReadFrame(ConColumns,
                << ConRowA(str_c1), ConRowB(str_c1_padded), ConRowC(str_c2) >>) }

JoinFinances ==
    { ReadFrame(FinColumns, <<>>),
      ReadFrame(FinColumns,
                << FinRow(str_c2, EmptyStr), FinRow(str_c1, EmptyStr),
                   FinRow(str_c1_padded, str_Acme), FinRow(str_c1, str_Bolt_padded) >>) }

JoinInputs ==
    { Inputs(lic, con, fin, day) :
        lic \in JoinLicenses, con \in JoinContracts, fin \in JoinFinances,
        day \in DefaultTodays }

(* The family of the sort and the highlighting: Expiration texts on both   *)
(* sides of each band boundary, equal dates, equal days at different       *)
(* hours, and texts that are no date.                                      *)

SortExpTexts == {str_60, str_61, str_61T9, str_91, EmptyStr, str_TBD}

Todays == {0, 1, 30, 31, 61, 62}

SortInputs ==
    { Inputs(ReadFrame(LicColumns, t), DefaultCon, DefaultFin, day) :
        t \in SeqsUpTo({ LicRow(str_c1, PRODUCT_ALLOWED, str_Enterprise, str_APAC, exp) :
                           exp \in SortExpTexts },
                       MaxSortRows),
        day \in Todays }

-----------------------------------------------------------------------------
(* consolidate(): the state once the three tables are read, and its steps. *)

Start(in) ==
    /\ pc = "filter"
    /\ lic_df = in.lic
    /\ con_df = in.con
    /\ fin_df = in.fin
    /\ today = in.today
    /\ lic_filtered = EmptyFrame
    /\ items = <<>>
    /\ contract_lookup = <<>>
    /\ finance_lookup = <<>>
    /\ con_i = 0
    /\ fin_i = 0
    /\ item_i = 0
    /\ missing_contract = 0
    /\ missing_finance = 0
    /\ out_df = EmptyFrame
    /\ cols = <<>>
    /\ ws = <<>>

\* filter_license_rows raises ValueError
FilterRaises ==
    /\ pc = "filter"
    /\ MissingColumns(LicenseRequired, lic_df) # {}
    /\ pc' = "raised"
    /\ UNCHANGED <<lic_df, con_df, fin_df, lic_filtered, items, contract_lookup,
                   finance_lookup, con_i, fin_i, item_i, missing_contract,
                   missing_finance, out_df, cols, today, ws>>

\* lic_filtered = filter_license_rows(lic_df); items = to_dict("records")
FilterLicenses ==
    /\ pc = "filter"
    /\ MissingColumns(LicenseRequired, lic_df) = {}
    /\ lic_filtered' = filter_license_rows(lic_df)
    /\ items' = ToRecords(lic_filtered')
    /\ pc' = "contract"
    /\ UNCHANGED <<lic_df, con_df, fin_df, contract_lookup, finance_lookup,
                   con_i, fin_i, item_i, missing_contract, missing_finance,
                   out_df, cols, today, ws>>

\* build_contract_lookup raises ValueError
ContractRaises ==
    /\ pc = "contract"
    /\ MissingColumns(ContractRequired, con_df) # {}
    /\ pc' = "raised"
    /\ UNCHANGED <<lic_df, con_df, fin_df, lic_filtered, items, contract_lookup,
                   finance_lookup, con_i, fin_i, item_i, missing_contract,
                   missing_finance, out_df, cols, today, ws>>

\* one iteration of the loop of build_contract_lookup
ContractRow ==
    /\ pc = "contract"
    /\ MissingColumns(ContractRequired, con_df) = {}
    /\ con_i < NRows(con_df)
    /\ contract_lookup' = ContractRowStep(contract_lookup, con_df.rows[con_i + 1])
    /\ con_i' = con_i + 1
    /\ UNCHANGED <<pc, lic_df, con_df, fin_df, lic_filtered, items,
                   finance_lookup, fin_i, item_i, missing_contract,
                   missing_finance, out_df, cols, today, ws>>

\* build_contract_lookup returns
ContractReturn ==
    /\ pc = "contract"
    /\ MissingColumns(ContractRequired, con_df) = {}
    /\ con_i = NRows(con_df)
    /\ pc' = "finance"
    /\ UNCHANGED <<lic_df, con_df, fin_df, lic_filtered, items, contract_lookup,
                   finance_lookup, con_i, fin_i, item_i, missing_contract,
                   missing_finance, out_df, cols, today, ws>>

\* build_finance_lookup raises ValueError
FinanceRaises ==
    /\ pc = "finance"
    /\ MissingColumns(FinanceRequired, fin_df) # {}
    /\ pc' = "raised"
    /\ UNCHANGED <<lic_df, con_df, fin_df, lic_filtered, items, contract_lookup,
                   finance_lookup, con_i, fin_i, item_i, missing_contract,
                   missing_finance, out_df, cols, today, ws>>

\* one iteration of the loop of build_finance_lookup
FinanceRow ==
    /\ pc = "finance"
    /\ MissingColumns(FinanceRequired, fin_df) = {}
    /\ fin_i < NRows(fin_df)
    /\ finance_lookup' = FinanceRowStep(finance_lookup, fin_df.rows[fin_i + 1])
    /\ fin_i' = fin_i + 1
    /\ UNCHANGED <<pc, lic_df, con_df, fin_df, lic_filtered, items,
                   contract_lookup, con_i, item_i, missing_contract,
                   missing_finance, out_df, cols, today, ws>>

\* build_finance_lookup returns
FinanceReturn ==
    /\ pc = "finance"
    /\ MissingColumns(FinanceRequired, fin_df) = {}
    /\ fin_i = NRows(fin_df)
    /\ pc' = "enrich"
    /\ UNCHANGED <<lic_df, con_df, fin_df, lic_filtered, items, contract_lookup,
                   finance_lookup, con_i, fin_i, item_i, missing_contract,
                   missing_finance, out_df, cols, today, ws>>

\* the contract half of one iteration of the enrichment loop
EnrichContract ==
    /\ pc = "enrich"
    /\ item_i < Len(items)
    /\ LET item == items[item_i + 1]
       IN  /\ items' = [items EXCEPT ![item_i + 1] = MergeContract(item, contract_lookup)]
           /\ missing_contract' =
                  IF ItemContractId(item) \notin DOMAIN contract_lookup
                  THEN missing_contract + 1
                  ELSE missing_contract
    /\ pc' = "enrich_finance"
    /\ UNCHANGED <<lic_df, con_df, fin_df, lic_filtered, contract_lookup,
                   finance_lookup, con_i, fin_i, item_i, missing_finance,
                   out_df, cols, today, ws>>

\* the finance half of the same iteration
EnrichFinance ==
    /\ pc = "enrich_finance"
    /\ LET item          == items[item_i + 1]
           customer_name == CustomerName(item, finance_lookup)
       IN  /\ missing_finance' =
                  IF customer_name = SENTINEL
                  THEN missing_finance + 1
                  ELSE missing_finance
           /\ items' = [items EXCEPT
                            ![item_i + 1] = DictSet(item, "Customer name", customer_name)]
    /\ item_i' = item_i + 1
    /\ pc' = "enrich"
    /\ UNCHANGED <<lic_df, con_df, fin_df, lic_filtered, contract_lookup,
                   finance_lookup, con_i, fin_i, missing_contract,
                   out_df, cols, today, ws>>

\* out_df = pd.DataFrame(items), sorted by the parsed Expiration
SortByExpiration ==
    /\ pc = "enrich"
    /\ item_i = Len(items)
    /\ LET df == DataFrameOf(items)
       IN  /\ "Expiration" \in Range(df.columns)
           /\ \E order \in SortOutcomes(ExpirationKeys(df)) :
                  out_df' = Take(df, order)
    /\ pc' = "columns"
    /\ UNCHANGED <<lic_df, con_df, fin_df, lic_filtered, items, contract_lookup,
                   finance_lookup, con_i, fin_i, item_i, missing_contract,
                   missing_finance, cols, today, ws>>

\* out_df = pd.DataFrame(items), there being no Expiration column
NoExpirationToSort ==
    /\ pc = "enrich"
    /\ item_i = Len(items)
    /\ LET df == DataFrameOf(items)
       IN  /\ "Expiration" \notin Range(df.columns)
           /\ out_df' = df
    /\ pc' = "columns"
    /\ UNCHANGED <<lic_df, con_df, fin_df, lic_filtered, items, contract_lookup,
                   finance_lookup, con_i, fin_i, item_i, missing_contract,
                   missing_finance, cols, today, ws>>

\* "Customer name" is added if absent; the columns are reordered
ReorderColumns ==
    /\ pc = "columns"
    /\ LET df == WithCustomerName(out_df)
       IN  /\ cols' = df.columns
           /\ out_df' = SelectColumns(df, NewCols(df.columns))
    /\ pc' = "write"
    /\ UNCHANGED <<lic_df, con_df, fin_df, lic_filtered, items, contract_lookup,
                   finance_lookup, con_i, fin_i, item_i, missing_contract,
                   missing_finance, today, ws>>

\* to_excel, then highlight_expiring_rows
WriteHighlighted ==
    /\ pc = "write"
    /\ "Expiration" \in Range(out_df.columns)
    /\ ws' = Highlighted(out_df, today)
    /\ pc' = "done"
    /\ UNCHANGED <<lic_df, con_df, fin_df, lic_filtered, items, contract_lookup,
                   finance_lookup, con_i, fin_i, item_i, missing_contract,
                   missing_finance, out_df, cols, today>>

\* to_excel, highlight_expiring_rows returning at once
WritePlain ==
    /\ pc = "write"
    /\ "Expiration" \notin Range(out_df.columns)
    /\ ws' = BlankSheet(out_df)
    /\ pc' = "done"
    /\ UNCHANGED <<lic_df, con_df, fin_df, lic_filtered, items, contract_lookup,
                   finance_lookup, con_i, fin_i, item_i, missing_contract,
                   missing_finance, out_df, cols, today>>

Next ==
    \/ FilterRaises
    \/ FilterLicenses
    \/ ContractRaises
    \/ ContractRow
    \/ ContractReturn
    \/ FinanceRaises
    \/ FinanceRow
    \/ FinanceReturn
    \/ EnrichContract
    \/ EnrichFinance
    \/ SortByExpiration
    \/ NoExpirationToSort
    \/ ReorderColumns
    \/ WriteHighlighted
    \/ WritePlain

Init == \E in \in JoinInputs \cup CommonInputs : Start(in)

InitFilter == \E in \in FilterInputs \cup CommonInputs : Start(in)

InitContract == \E in \in ContractInputs \cup CommonInputs : Start(in)

InitFinance == \E in \in FinanceInputs \cup CommonInputs : Start(in)

InitSort == \E in \in SortInputs \cup CommonInputs : Start(in)

\* the run over the join family
Spec == Init /\ [][Next]_vars

SpecFilter == InitFilter /\ [][Next]_vars

SpecContract == InitContract /\ [][Next]_vars

SpecFinance == InitFinance /\ [][Next]_vars

SpecSort == InitSort /\ [][Next]_vars

-----------------------------------------------------------------------------
(* Properties.                                                             *)

FilterDone == pc \notin {"filter"} /\ MissingColumns(LicenseRequired, lic_df) = {}

\* the 0-based label of a row of lic_df is its position less one
LicRowOfLabel(label) == lic_df.rows[label + 1]

\* the row is kept by the rule as the specification words it
KeptByRule(row) ==
    /\ Lower(Strip(row["Product"])) = <<"i", "n", "s", "p", "e", "c", "t">>
    /\ Lower(Strip(row["Tier"])) \in TIERS_ALLOWED
    /\ Lower(Strip(row["BU"])) # BU_EXCLUDE
    /\ Lower(Strip(row["BU"])) \notin BU_MISSING_MARKERS

\* C1: once filter_license_rows has run, a row of the license table is in
\* the filtered table if and only if its Product, trimmed and lower-cased,
\* is "inspect", its Tier is an allowed tier and its BU is neither
\* "proceq hq" nor a missing-value marker; the kept rows are the input rows
\* unmodified, under the same columns, in their input order.
C1_FilterKeepsExactlyTheRule ==
    FilterDone =>
        /\ lic_filtered.columns = lic_df.columns
        /\ \A k \in DOMAIN lic_df.rows :
               (\E j \in DOMAIN lic_filtered.index :
                    lic_filtered.index[j] = lic_df.index[k])
               <=> KeptByRule(lic_df.rows[k])
        /\ \A j \in DOMAIN lic_filtered.rows :
               lic_filtered.rows[j] = LicRowOfLabel(lic_filtered.index[j])
        /\ \A j, m \in DOMAIN lic_filtered.index :
               j < m => lic_filtered.index[j] < lic_filtered.index[m]

\* C1 witness: of two rows the first is dropped for a BU that is a missing
\* marker only once lower-cased, the second is kept with a padded Product.
C1_Witness ==
    /\ FilterDone
    /\ NRows(lic_df) = 2
    /\ lic_df.rows[1]["BU"] = str_N_A
    /\ lic_df.rows[1]["Product"] = PRODUCT_ALLOWED
    /\ lic_df.rows[1]["Tier"] = str_Inspect_Pro_tab
    /\ lic_df.rows[2]["Product"] = str_Inspect_padded
    /\ lic_filtered.index = <<1>>

FinanceLoopEntered == MissingColumns(FinanceRequired, fin_df) = {}

\* a consumed finance row has supplied a non-empty name for the ID
NamedSoFar(id) ==
    \E k \in 1..fin_i :
        /\ Strip(fin_df.rows[k]["Contract ID"]) = id
        /\ Strip(fin_df.rows[k]["Customer name"]) # EmptyStr

\* C2: in build_finance_lookup, once a row has supplied a non-empty name for
\* an ID, no later step changes the value stored for that ID.
C2_FirstNameIsKept ==
    [][ FinanceLoopEntered =>
            \A id \in DOMAIN finance_lookup :
                NamedSoFar(id) =>
                    /\ id \in DOMAIN finance_lookup'
                    /\ finance_lookup'[id] = finance_lookup[id] ]_vars

ContractLoopEntered == MissingColumns(ContractRequired, con_df) = {}

ContractIdOfRow(k) == Strip(con_df.rows[k]["ID"])

ContractIdsSeen == { ContractIdOfRow(k) : k \in 1..con_i } \ {EmptyStr}

FirstRowWith(id) ==
    CHOOSE k \in 1..con_i :
        /\ ContractIdOfRow(k) = id
        /\ \A m \in 1..(k - 1) : ContractIdOfRow(m) # id

\* C3: after any prefix of the contract rows, the keys of the lookup are the
\* non-empty trimmed IDs seen so far, and the entry of each ID holds the
\* seven attributes (as stored: trimmed) of the first row carrying that ID.
C3_FirstContractRowWins ==
    ContractLoopEntered =>
        /\ DOMAIN contract_lookup = ContractIdsSeen
        /\ \A id \in ContractIdsSeen :
               /\ DOMAIN contract_lookup[id] = Range(contract_fields)
               /\ \A f \in Range(contract_fields) :
                      contract_lookup[id][f] = Strip(con_df.rows[FirstRowWith(id)][f])

\* C3 witness: three rows, the second repeating the first one's ID with
\* padding and other attributes, the third with a blank ID; one entry.
C3_Witness ==
    /\ ContractLoopEntered
    /\ con_i = 3
    /\ con_df.rows[1] = ConRowA(str_c1)
    /\ con_df.rows[2] = ConRowB(str_c1_padded)
    /\ con_df.rows[3] = ConRowC(str_blank)
    /\ DOMAIN contract_lookup = {str_c1}
    /\ contract_lookup[str_c1]["Language"] = str_en

OutputFinal == pc \in {"write", "done"}

\* the items whose contract half of the loop body has run
ContractMerged ==
    IF pc = "enrich_finance" THEN 1..(item_i + 1) ELSE 1..item_i

\* the trimmed Contract ID of the j-th filtered license row
LicId(j) == Strip(lic_filtered.rows[j]["Contract ID"])

LicenseOnlyColumns ==
    Range(lic_filtered.columns) \ (Range(contract_fields) \cup {"Customer name"})

\* C4: the final table holds every filtered license row exactly once and
\* nothing else: it has as many rows as the filtered table, each filtered
\* row's label occurs at exactly one position, and the row at a position is
\* the enriched record of the license row it is labelled with.
C4_JoinIsComplete ==
    OutputFinal =>
        /\ NRows(out_df) = NRows(lic_filtered)
        /\ Len(out_df.index) = NRows(out_df)
        /\ \A j \in DOMAIN lic_filtered.rows :
               Cardinality({ q \in DOMAIN out_df.index : out_df.index[q] = j - 1 }) = 1
        /\ \A q \in DOMAIN out_df.rows :
               LET j == out_df.index[q] + 1
               IN  /\ j \in DOMAIN items
                   /\ \A c \in Range(out_df.columns) :
                          out_df.rows[q][c] = items[j].val[c]
                   /\ \A c \in LicenseOnlyColumns :
                          out_df.rows[q][c] = lic_filtered.rows[j][c]

\* C4 witness: two kept rows swapped by the sort, one without a contract
\* and without a finance entry, the contracts table holding a duplicated ID.
C4_Witness ==
    /\ pc = "done"
    /\ out_df.index = <<1, 0>>
    /\ NRows(con_df) = 3
    /\ NRows(fin_df) = 4
    /\ LicId(1) = str_c3
    /\ LicId(2) = str_c1
    /\ missing_contract = 1
    /\ missing_finance = 1

FinanceMiss(j) ==
    \/ LicId(j) \notin DOMAIN finance_lookup
    \/ finance_lookup[LicId(j)] = SENTINEL

\* C5: when the i first items are enriched, the missing-contract counter is
\* the number of them whose trimmed Contract ID is no key of the contract
\* lookup, the missing-finance counter is the number of them whose ID is no
\* key of the finance lookup or is mapped to "#NA", and an item's
\* "Customer name" is "#NA" exactly when it is one of the latter.
C5_MissCounters ==
    pc \in {"enrich", "columns", "write", "done"} =>
        /\ missing_contract =
               Cardinality({ j \in 1..item_i : LicId(j) \notin DOMAIN contract_lookup })
        /\ missing_finance = Cardinality({ j \in 1..item_i : FinanceMiss(j) })
        /\ \A j \in 1..item_i :
               (items[j].val["Customer name"] = SENTINEL) <=> FinanceMiss(j)

\* C5 witness: the join is over; one ID is absent from both lookups, the
\* other is a key of both and is mapped to the stored sentinel.
C5_Witness ==
    /\ pc = "columns"
    /\ item_i = 2
    /\ LicId(1) = str_c2
    /\ LicId(2) = str_c3
    /\ str_c2 \in DOMAIN finance_lookup
    /\ str_c3 \notin DOMAIN finance_lookup
    /\ missing_contract = 1
    /\ missing_finance = 2

\* C6: in the sorted table the rows whose Expiration parses precede those
\* whose Expiration does not, the former are in non-decreasing order of the
\* parsed value, and the latter keep their input order.
C6_SortedByExpiration ==
    (pc \in {"columns", "write", "done"} /\ "Expiration" \in Range(out_df.columns)) =>
        \A q, r \in DOMAIN out_df.rows :
            q < r =>
                LET a == to_datetime(out_df.rows[q]["Expiration"])
                    b == to_datetime(out_df.rows[r]["Expiration"])
                IN  /\ a = NaT => b = NaT
                    /\ (a # NaT /\ b # NaT) =>
                           (a[1] < b[1] \/ (a[1] = b[1] /\ a[2] <= b[2]))
                    /\ (a = NaT /\ b = NaT) => out_df.index[q] < out_df.index[r]

\* C6 witness: a date between two texts that are no date moves to the top,
\* the two others follow in their input order.
C6_Witness ==
    /\ pc = "done"
    /\ NRows(out_df) = 3
    /\ out_df.index = <<1, 0, 2>>
    /\ out_df.rows[1]["Expiration"] = str_61T9
    /\ out_df.rows[2]["Expiration"] = str_TBD
    /\ out_df.rows[3]["Expiration"] = EmptyStr

\* C7: an item whose trimmed Contract ID is a key of the contract lookup
\* carries, once merged, the lookup entry's value in each of the seven
\* contract fields, whatever the license row held there; its other license
\* fields are as in the license row ("Customer name" until the finance half
\* of the loop body writes it).
C7_ContractHitCopiesEntry ==
    pc \in {"enrich", "enrich_finance", "columns", "write", "done"} =>
        \A j \in ContractMerged :
            LicId(j) \in DOMAIN contract_lookup =>
                /\ \A f \in Range(contract_fields) :
                       /\ HasKey(items[j], f)
                       /\ items[j].val[f] = contract_lookup[LicId(j)][f]
                /\ \A c \in Range(lic_filtered.columns) \ Range(contract_fields) :
                       (c # "Customer name" \/ j > item_i) =>
                           items[j].val[c] = lic_filtered.rows[j][c]

\* C7 witness: the license row's own Remarks has just been replaced by the
\* contract's on a hit.
C7_Witness ==
    /\ pc = "enrich_finance"
    /\ lic_filtered.columns = LicColumnsRemarks
    /\ LicId(item_i + 1) = str_c1
    /\ lic_filtered.rows[item_i + 1]["Remarks"] = str_lic_note
    /\ items[item_i + 1].val["Remarks"] = str_vip
    /\ items[item_i + 1].val["Country Sold To"] = str_Singapore

\* C8: an item whose trimmed Contract ID is no key of the contract lookup
\* carries, once merged, the empty string in each of the seven contract
\* fields.
C8_ContractMissLeavesBlank ==
    pc \in {"enrich", "enrich_finance", "columns", "write", "done"} =>
        \A j \in ContractMerged :
            LicId(j) \notin DOMAIN contract_lookup =>
                \A f \in Range(contract_fields) :
                    /\ HasKey(items[j], f)
                    /\ items[j].val[f] = EmptyStr

PositionsOf(c, seq) == { k \in DOMAIN seq : seq[k] = c }

\* C9: the final column sequence is a permutation of the columns before the
\* reordering, each name once, "Contract ID" first when present,
\* "Customer name" second, the others in their previous relative order.
C9_ColumnsArePermuted ==
    OutputFinal =>
        /\ Len(out_df.columns) = Len(cols)
        /\ \A c \in Range(cols) \cup Range(out_df.columns) :
               /\ Cardinality(PositionsOf(c, out_df.columns)) = 1
               /\ Cardinality(PositionsOf(c, cols)) = 1
        /\ "Contract ID" \in Range(cols) => out_df.columns[1] = "Contract ID"
        /\ out_df.columns[2] = "Customer name"
        /\ \A a, b \in 3..Len(out_df.columns) :
               a < b =>
                   \E x, y \in DOMAIN cols :
                       /\ x < y
                       /\ cols[x] = out_df.columns[a]
                       /\ cols[y] = out_df.columns[b]

\* the fill the rule gives a record, as the specification words it
FillByRule(row) ==
    LET ts == to_datetime(row["Expiration"])
    IN  IF ts = NaT THEN NO_FILL
        ELSE IF 0 <= ts[1] - today /\ ts[1] - today <= 30 THEN ORANGE_FILL
        ELSE IF 31 <= ts[1] - today /\ ts[1] - today <= 60 THEN YELLOW_FILL
        ELSE NO_FILL

\* C10: in the written sheet, every cell of the sheet row of the record at
\* 0-based position n (sheet row n + 2) is orange iff the record expires in
\* 0..30 whole days from today, yellow iff in 31..60, and unfilled
\* otherwise; the header row and no other cell is filled.
C10_HighlightBands ==
    (pc = "done" /\ "Expiration" \in Range(out_df.columns)) =>
        /\ DOMAIN ws = (1..(NRows(out_df) + 1)) \X (1..Len(out_df.columns))
        /\ \A c \in 1..Len(out_df.columns) : ws[<<1, c>>] = NO_FILL
        /\ \A n \in 0..(NRows(out_df) - 1) :
               \A c \in 1..Len(out_df.columns) :
                   ws[<<n + 2, c>>] = FillByRule(out_df.rows[n + 1])

\* C10 witness: today is day 30; the table holds a record expiring in 30
\* days (orange), one in 31 days (yellow), and one in 61 days (unfilled).
C10_Witness ==
    /\ pc = "done"
    /\ today = 30
    /\ NRows(out_df) = 3
    /\ out_df.rows[1]["Expiration"] = str_60
    /\ out_df.rows[2]["Expiration"] = str_61T9
    /\ out_df.rows[3]["Expiration"] = str_91
    /\ \A c \in 1..Len(out_df.columns) :
           /\ ws[<<2, c>>] = ORANGE_FILL
           /\ ws[<<3, c>>] = YELLOW_FILL
           /\ ws[<<4, c>>] = NO_FILL

=============================================================================
